---------------------------- MODULE Spec2Model ----------------------------
(***************************************************************************)
(* A model of decimal64: DecimalU64<S>, an unsigned fixed-point decimal    *)
(* backed by a u64 `unscaled` value and a compile-time scale S in 0..8.    *)
(*                                                                         *)
(* TLC's integers are 32 bits wide, so the u64 / u128 values of the        *)
(* program are carried as sequences of limbs (least significant first,     *)
(* radix RADIX, no leading zero limb; zero is the empty sequence).  Two    *)
(* values are equal exactly when their limb sequences are equal.           *)
(***************************************************************************)
EXTENDS Integers, Sequences, FiniteSets

---------------------------------------------------------------------------
(* Wide unsigned integers: the arithmetic of Rust's u64 and u128.          *)

RADIX == 10000

Zero == <<>>

RECURSIVE Norm(_)
Norm(x) ==
    IF x = <<>> THEN <<>>
    ELSE IF x[Len(x)] = 0 THEN Norm(SubSeq(x, 1, Len(x) - 1))
    ELSE x

RECURSIVE Big(_)
Big(n) == IF n = 0 THEN <<>> ELSE <<n % RADIX>> \o Big(n \div RADIX)

Limb(x, i) == IF i <= Len(x) THEN x[i] ELSE 0

RECURSIVE AddFrom(_, _, _, _)
AddFrom(x, y, i, c) ==
    IF i > Len(x) /\ i > Len(y)
    THEN (IF c = 0 THEN <<>> ELSE <<c>>)
    ELSE LET s == Limb(x, i) + Limb(y, i) + c
         IN  <<s % RADIX>> \o AddFrom(x, y, i + 1, s \div RADIX)

BigAdd(x, y) == AddFrom(x, y, 1, 0)

RECURSIVE CmpFrom(_, _, _)
CmpFrom(x, y, i) ==
    IF i = 0 THEN 0
    ELSE IF x[i] < y[i] THEN -1
    ELSE IF x[i] > y[i] THEN 1
    ELSE CmpFrom(x, y, i - 1)

BigCmp(x, y) ==
    IF Len(x) < Len(y) THEN -1
    ELSE IF Len(x) > Len(y) THEN 1
    ELSE CmpFrom(x, y, Len(x))

BigLt(x, y) == BigCmp(x, y) < 0
BigLe(x, y) == BigCmp(x, y) <= 0

RECURSIVE SubFrom(_, _, _, _)
SubFrom(x, y, i, b) ==
    IF i > Len(x) THEN <<>>
    ELSE LET d == x[i] - Limb(y, i) - b
         IN  IF d < 0 THEN <<d + RADIX>> \o SubFrom(x, y, i + 1, 1)
             ELSE <<d>> \o SubFrom(x, y, i + 1, 0)

\* x - y for y <= x
BigSub(x, y) == Norm(SubFrom(x, y, 1, 0))

RECURSIVE MulSmallFrom(_, _, _, _)
MulSmallFrom(x, d, i, c) ==
    IF i > Len(x) THEN (IF c = 0 THEN <<>> ELSE <<c>>)
    ELSE LET p == x[i] * d + c
         IN  <<p % RADIX>> \o MulSmallFrom(x, d, i + 1, p \div RADIX)

\* x * d for a single limb d
BigMulSmall(x, d) == IF d = 0 THEN <<>> ELSE MulSmallFrom(x, d, 1, 0)

ShiftLimbs(x, k) == IF x = <<>> THEN <<>> ELSE [j \in 1..k |-> 0] \o x

RECURSIVE MulFrom(_, _, _)
MulFrom(x, y, i) ==
    IF i > Len(y) THEN <<>>
    ELSE BigAdd(ShiftLimbs(BigMulSmall(x, y[i]), i - 1), MulFrom(x, y, i + 1))

BigMul(x, y) == MulFrom(x, y, 1)

\* The largest d in lo..hi with y * d <= r (y * lo <= r is given)
RECURSIVE QLimb(_, _, _, _)
QLimb(r, y, lo, hi) ==
    IF lo = hi THEN lo
    ELSE LET mid == (lo + hi + 1) \div 2
         IN  IF BigLe(BigMulSmall(y, mid), r)
             THEN QLimb(r, y, mid, hi)
             ELSE QLimb(r, y, lo, mid - 1)

\* Long division of the limbs i..Len(x) of x by y: <<quotient, remainder>>
RECURSIVE DivFrom(_, _, _)
DivFrom(x, y, i) ==
    IF i > Len(x) THEN <<Zero, Zero>>
    ELSE LET h == DivFrom(x, y, i + 1)
             r == Norm(<<x[i]>> \o h[2])
             d == QLimb(r, y, 0, RADIX - 1)
         IN  <<Norm(<<d>> \o h[1]), BigSub(r, BigMulSmall(y, d))>>

\* <<x div y, x mod y>> for y > 0
BigDivMod(x, y) == DivFrom(x, y, 1)

BigDiv(x, y) == BigDivMod(x, y)[1]
BigMod(x, y) == BigDivMod(x, y)[2]

\* The value of a limb sequence below 2^31 as a plain integer
RECURSIVE BigToInt(_)
BigToInt(x) == IF x = <<>> THEN 0 ELSE x[1] + RADIX * BigToInt(Tail(x))

One == <<1>>
Ten == <<10>>
Two32 == BigMul(Big(65536), Big(65536))
Two64 == BigMul(Two32, Two32)
Two128 == BigMul(Two64, Two64)

U8_MAX == 255
U64_MAX == BigSub(Two64, One)
U128_MAX == BigSub(Two128, One)

---------------------------------------------------------------------------
(* Results: Result<DecimalU64, Error>, Option<DecimalU64>, and a panic.    *)

Ok(v) == [tag |-> "Ok", val |-> v]
Overflow(text) == [tag |-> "Overflow", val |-> text]
InvalidCharacterInput(c) == [tag |-> "InvalidCharacterInput", val |-> c]
Some(v) == [tag |-> "Some", val |-> v]
None == [tag |-> "None", val |-> <<>>]
Panic(msg) == [tag |-> "panic", val |-> msg]

---------------------------------------------------------------------------
(* The program's state: one call of the library on its arguments.          *)

VARIABLES
    S,                \* the scale S::SCALE of the DecimalU64<S> in use
    overflow_checks,  \* the build: TRUE panics on integer overflow, FALSE wraps
    bytes,            \* the input handed to try_from
    self,             \* the receiver's `unscaled`
    other,            \* the second operand's `unscaled` (rhs, other, tick_size)
    call,             \* the function called last ("start": none yet)
    ret               \* what it returned

vars == <<S, overflow_checks, bytes, self, other, call, ret>>

---------------------------------------------------------------------------
(* ScaleMetrics and SCALE_FACTORS                                          *)

MAX_SCALE == 8
Scales == 0..MAX_SCALE

SCALE_FACTORS == <<1, 10, 100, 1000, 10000, 100000, 1000000, 10000000, 100000000>>

RECURSIVE pow10(_)
pow10(n) == IF n = 0 THEN 1 ELSE 10 * pow10(n - 1)

\* S::SCALE_FACTOR = 10u64.pow(SCALE)
SCALE_FACTOR(scale) == Big(pow10(scale))

---------------------------------------------------------------------------
(* Primitive integer arithmetic as the build compiles it.                  *)

\* A value reduced to the u64 range, as release builds wrap and `as u64` truncates
wrap_u64(v) == IF BigLe(v, U64_MAX) THEN v ELSE BigMod(v, Two64)

\* `a * b`, `a + b` on u64 with the true result v: panics with overflow
\* checks on, wraps without
unchecked_u64(v, what) ==
    IF BigLe(v, U64_MAX) THEN Ok(v)
    ELSE IF overflow_checks THEN Panic(what)
    ELSE Ok(wrap_u64(v))

\* u64::checked_add, u64::checked_mul with the true result v
checked_u64(v) == IF BigLe(v, U64_MAX) THEN Some(v) ELSE None

\* `a - b` on u64
unchecked_sub_u64(a, b) ==
    IF BigLe(b, a) THEN Ok(BigSub(a, b))
    ELSE IF overflow_checks THEN Panic("attempt to subtract with overflow")
    ELSE Ok(BigSub(BigAdd(a, Two64), b))

\* u64::checked_sub
checked_sub_u64(a, b) == IF BigLe(b, a) THEN Some(BigSub(a, b)) ELSE None

---------------------------------------------------------------------------
(* impl TryFrom<&[u8]> for DecimalU64<S>                                   *)

ASCII_MINUS == 45
ASCII_DOT == 46
ASCII_SLASH == 47
ASCII_0 == 48
ASCII_7 == 55
ASCII_9 == 57
ASCII_COLON == 58
BYTE_FF == 255

\* String::from_utf8_lossy(bytes).to_string(): ASCII bytes are kept, a byte
\* that can start no UTF-8 sequence becomes U+FFFD
REPLACEMENT_CHARACTER == 65533
ASCII_MAX == 127
from_utf8_lossy(bs) ==
    [i \in 1..Len(bs) |-> IF bs[i] <= ASCII_MAX THEN bs[i] ELSE REPLACEMENT_CHARACTER]

\* Locals that start from an accumulator of 1
ParseStart_one ==
    [unscaled |-> One, fractional_part_flag |-> 0, scale_counter |-> 0, ret |-> None]

\* The locals of try_from before the loop
ParseStart ==
    [unscaled |-> Zero, fractional_part_flag |-> 0, scale_counter |-> 0, ret |-> None]

\* b'0'..=b':', a range one byte too long
is_digit_to_colon(byte) == byte >= ASCII_0 /\ byte <= ASCII_COLON

\* The match arm b'0'..=b'9'
is_digit(byte) == byte >= ASCII_0 /\ byte <= ASCII_9

\* `unscaled * 10`: an unchecked u64 multiplication
times_ten(unscaled) ==
    unchecked_u64(BigMulSmall(unscaled, 10), "attempt to multiply with overflow")

\* `scale_counter += fractional_part_flag` on u8
bump_counter(st) ==
    LET counter == st.scale_counter + st.fractional_part_flag
    IN  IF counter <= U8_MAX THEN [st EXCEPT !.scale_counter = counter]
        ELSE IF overflow_checks
        THEN [st EXCEPT !.ret = Panic("attempt to add with overflow")]
        ELSE [st EXCEPT !.scale_counter = counter % (U8_MAX + 1)]

\* An iteration that rejects a '.' once the fractional flag is set
ParseByte_one_dot(st, bs, byte) ==
    IF st.ret.tag # "None" THEN st
    ELSE IF is_digit(byte) THEN
        LET prod == times_ten(st.unscaled)
        IN  IF prod.tag = "panic" THEN [st EXCEPT !.ret = prod]
            ELSE
            LET sum == checked_u64(BigAdd(prod.val, Big(byte - ASCII_0)))
            IN  IF sum.tag = "None"
                THEN [st EXCEPT !.ret = Overflow(from_utf8_lossy(bs))]
                ELSE bump_counter([st EXCEPT !.unscaled = sum.val])
    ELSE IF byte = ASCII_DOT /\ st.fractional_part_flag = 0
         THEN [st EXCEPT !.fractional_part_flag = 1]
    ELSE [st EXCEPT !.ret = InvalidCharacterInput(byte)]

\* One iteration of `for &byte in bytes`; `ret` other than None is an early
\* return (or a panic), after which nothing more runs
ParseByte(st, bs, byte) ==
    IF st.ret.tag # "None" THEN st
    ELSE IF is_digit(byte) THEN
        LET prod == times_ten(st.unscaled)
        IN  IF prod.tag = "panic" THEN [st EXCEPT !.ret = prod]
            ELSE
            LET sum == checked_u64(BigAdd(prod.val, Big(byte - ASCII_0)))
            IN  IF sum.tag = "None"
                THEN [st EXCEPT !.ret = Overflow(from_utf8_lossy(bs))]
                ELSE bump_counter([st EXCEPT !.unscaled = sum.val])
    ELSE IF byte = ASCII_DOT THEN [st EXCEPT !.fractional_part_flag = 1]
    ELSE [st EXCEPT !.ret = InvalidCharacterInput(byte)]

\* The loop over bytes[lo..hi], split in halves to keep the evaluation shallow
RECURSIVE ParseLoop(_, _, _, _)
ParseLoop(st, bs, lo, hi) ==
    IF st.ret.tag # "None" \/ lo > hi THEN st
    ELSE IF lo = hi THEN ParseByte(st, bs, bs[lo])
    ELSE LET mid == (lo + hi) \div 2
         IN  ParseLoop(ParseLoop(st, bs, lo, mid), bs, mid + 1, hi)

\* The code after the loop: rescale by SCALE_FACTORS[S::SCALE - scale_counter]
ParseFinish(st, bs, scale) ==
    IF st.ret.tag # "None" THEN st.ret
    ELSE IF st.scale_counter > scale THEN Overflow(from_utf8_lossy(bs))
    ELSE LET r == checked_u64(BigMul(st.unscaled,
                                     Big(SCALE_FACTORS[scale - st.scale_counter + 1])))
         IN  IF r.tag = "None" THEN Overflow(from_utf8_lossy(bs)) ELSE Ok(r.val)

try_from(bs, scale) == ParseFinish(ParseLoop(ParseStart, bs, 1, Len(bs)), bs, scale)

---------------------------------------------------------------------------
(* DecimalU64::split, write_to and impl Display                            *)

\* A split at the last digit, whatever the scale
split_by_ten(unscaled, scale) == BigDivMod(unscaled, Ten)

\* (integer_part, fractional_part)
split(unscaled, scale) == BigDivMod(unscaled, SCALE_FACTOR(scale))

\* buffer[idx] = byte; an index outside the buffer panics
Put(w, idx, byte) ==
    IF w.panicked \/ idx \notin DOMAIN w.buffer
    THEN [w EXCEPT !.panicked = TRUE]
    ELSE [w EXCEPT !.buffer[idx] = byte]

\* A digit count that is one too high
RECURSIVE digit_count_wide(_)
digit_count_wide(tmp) ==
    IF tmp = Zero THEN 1 ELSE 1 + digit_count_wide(BigDiv(tmp, Ten))

\* The first loop over tmp: the number of decimal digits of int_part
RECURSIVE digit_count(_)
digit_count(tmp) == IF tmp = Zero THEN 0 ELSE 1 + digit_count(BigDiv(tmp, Ten))

\* The second loop over tmp: the digits written from idx - 1 downwards
RECURSIVE WriteIntDigits(_, _, _)
WriteIntDigits(w, tmp, idx) ==
    IF tmp = Zero THEN w
    ELSE WriteIntDigits(Put(w, idx - 1, ASCII_0 + BigToInt(BigMod(tmp, Ten))),
                        BigDiv(tmp, Ten), idx - 1)

\* `for _ in 0..S::SCALE`: n iterations are left
RECURSIVE WriteFracDigits(_, _, _, _, _)
WriteFracDigits(w, frac, divisor, pos, n) ==
    IF n = 0 THEN w
    ELSE WriteFracDigits(Put(w, pos, ASCII_0 + (frac \div divisor)),
                         frac % divisor, divisor \div 10, pos + 1, n - 1)

\* 10u64.pow(S::SCALE as u32), a divisor one digit too high
first_divisor_scale(scale) == pow10(scale)

\* 10u64.pow((S::SCALE - 1) as u32), the divisor of the first fractional digit
first_divisor(scale) == pow10(scale - 1)

\* write_to(&self, buffer): the buffer afterwards and the returned pos
write_to(unscaled, scale, buffer) ==
    LET parts == split(unscaled, scale)
        int_part == parts[1]
        frac_part == BigToInt(parts[2])
        w0 == [buffer |-> buffer, panicked |-> FALSE]
        pos1 == IF int_part = Zero THEN 1 ELSE digit_count(int_part)
        w1 == IF int_part = Zero THEN Put(w0, 0, ASCII_0)
              ELSE WriteIntDigits(w0, int_part, pos1)
        w2 == IF scale > 0
              THEN WriteFracDigits(Put(w1, pos1, ASCII_DOT), frac_part,
                                   first_divisor(scale), pos1 + 1, scale)
              ELSE w1
        pos == IF scale > 0 THEN pos1 + 1 + scale ELSE pos1
    IN  [buffer |-> w2.buffer, pos |-> pos, panicked |-> w2.panicked]

DISPLAY_BUFFER_LEN == 64

\* Display::fmt: the text written, &buf[..len]
fmt(unscaled, scale) ==
    LET w == write_to(unscaled, scale, [i \in 0..(DISPLAY_BUFFER_LEN - 1) |-> 0])
    IN  IF w.panicked THEN Panic("index out of bounds")
        ELSE [tag |-> "String", val |-> [i \in 1..w.pos |-> w.buffer[i - 1]]]

---------------------------------------------------------------------------
(* The inputs of the parser                                                *)

MaxLen == 3
LongSlack == 2

Alphabet == {ASCII_0, ASCII_7, ASCII_DOT, ASCII_MINUS, ASCII_SLASH, ASCII_COLON}

\* Every input of at most MaxLen bytes over Alphabet
ShortInputs == UNION {[1..n -> Alphabet] : n \in 0..MaxLen}

Digits(ds) == [i \in 1..Len(ds) |-> ASCII_0 + ds[i]]

\* bs with a '.' before its last k bytes; k = -1 leaves bs without one
WithDot(bs, k) ==
    IF k < 0 \/ k > Len(bs) THEN bs
    ELSE SubSeq(bs, 1, Len(bs) - k) \o <<ASCII_DOT>> \o SubSeq(bs, Len(bs) - k + 1, Len(bs))

\* "18446744073709551615", the digits of u64::MAX
U64_MAX_DIGITS == <<1, 8, 4, 4, 6, 7, 4, 4, 0, 7, 3, 7, 0, 9, 5, 5, 1, 6, 1, 5>>

\* Digit strings at the edge of the u64 range: u64::MAX - 1 .. u64::MAX + 1,
\* 18446744073709551620 and 20 nines (the accumulator times 10 leaves the
\* range), and the 19-digit prefixes whose rescaling by 10 does or does not
BoundaryDigits ==
    {[U64_MAX_DIGITS EXCEPT ![20] = d] : d \in 4..6}
    \cup {[U64_MAX_DIGITS EXCEPT ![19] = 2, ![20] = 0]}
    \cup {[i \in 1..20 |-> 9]}
    \cup {[i \in 1..19 |-> IF i = 19 THEN d ELSE U64_MAX_DIGITS[i]] : d \in 1..2}

\* What may follow a long input: nothing, '-', or a byte that is not ASCII
Tails == {<<>>, <<ASCII_MINUS>>, <<BYTE_FF>>}

BoundaryInputs ==
    {WithDot(Digits(d), k) \o t : d \in BoundaryDigits, k \in (-1)..(MAX_SCALE + 1), t \in Tails}

\* A '.' followed by about 2^8 zeros, where the u8 scale_counter runs out
LongFracInputs ==
    {lead \o <<ASCII_DOT>> \o [i \in 1..n |-> ASCII_0] \o t :
        lead \in {<<>>, <<ASCII_7>>},
        n \in (U8_MAX + 1 - LongSlack)..(U8_MAX + 1 + LongSlack),
        t \in Tails}

\* The literals of the crate's tests: "123.45", "123", "123.", "123.0",
\* "123.456", "123.45000000", "123.45000001", "0.0", "0", "10", "12345"
TestInputs ==
    {WithDot(Digits(<<1, 2, 3, 4, 5>>), k) : k \in {-1, 2}}
    \cup {WithDot(Digits(<<1, 2, 3>>), k) : k \in {-1, 0}}
    \cup {WithDot(Digits(<<1, 2, 3, 0>>), 1), WithDot(Digits(<<1, 2, 3, 4, 5, 6>>), 3)}
    \cup {WithDot(Digits(<<1, 2, 3, 4, 5, 0, 0, 0, 0, 0, d>>), 8) : d \in 0..1}
    \cup {WithDot(Digits(<<0, 0>>), 1), Digits(<<0>>), Digits(<<1, 0>>)}

\* Inputs with two '.' bytes at any two places: "1.2.3", "1..23", "..123",
\* and the digit strings at the edge of the u64 range likewise
DottedInputs ==
    {WithDot(WithDot(Digits(d), k), j) :
        d \in BoundaryDigits \cup {<<1, 2, 3>>}, k \in 0..(MAX_SCALE + 1), j \in 0..(MAX_SCALE + 1)}

Inputs == ShortInputs \cup TestInputs \cup BoundaryInputs \cup LongFracInputs \cup DottedInputs

---------------------------------------------------------------------------
(* Parsing and formatting                                                  *)

Init == /\ S \in Scales
        /\ overflow_checks \in BOOLEAN
        /\ bytes \in Inputs
        /\ self = Zero /\ other = Zero
        /\ call = "start" /\ ret = None

\* DecimalU64::<S>::try_from(bytes)
TryFrom ==
    /\ call = "start"
    /\ call' = "try_from"
    /\ ret' = try_from(bytes, S)
    /\ self' = IF ret'.tag = "Ok" THEN ret'.val ELSE self
    /\ UNCHANGED <<S, overflow_checks, bytes, other>>

\* .to_string() of the value try_from returned
DisplayFmt ==
    /\ call = "try_from" /\ ret.tag = "Ok"
    /\ call' = "to_string"
    /\ ret' = fmt(self, S)
    /\ UNCHANGED <<S, overflow_checks, bytes, self, other>>

Next == TryFrom \/ DisplayFmt
Spec == Init /\ [][Next]_vars
---------------------------------------------------------------------------
(* arithmetic.rs: the operators and the checked methods                    *)

\* u128::checked_mul with the true result v
checked_u128(v) == IF BigLe(v, U128_MAX) THEN Some(v) ELSE None

\* `a * b` on u128 with the true result v
unchecked_u128(v, what) ==
    IF BigLe(v, U128_MAX) THEN Ok(v)
    ELSE IF overflow_checks THEN Panic(what)
    ELSE Ok(BigMod(v, Two128))

\* Mul::mul
mul(a, b, scale) ==
    LET product == unchecked_u128(BigMul(a, b), "attempt to multiply with overflow")
    IN  IF product.tag = "panic" THEN product
        ELSE Ok(wrap_u64(BigDiv(product.val, SCALE_FACTOR(scale))))

\* Add::add
add(a, b) == unchecked_u64(BigAdd(a, b), "attempt to add with overflow")

\* Sub::sub
sub(a, b) == unchecked_sub_u64(a, b)

\* Div::div without the widening by SCALE_FACTOR
div_unscaled(a, b, scale) ==
    IF b = Zero THEN Panic("Division by zero") ELSE Ok(BigDiv(a, b))

\* Div::div
div(a, b, scale) ==
    IF b = Zero THEN Panic("Division by zero")
    ELSE LET dividend == unchecked_u128(BigMul(a, SCALE_FACTOR(scale)),
                                        "attempt to multiply with overflow")
         IN  IF dividend.tag = "panic" THEN dividend
             ELSE Ok(wrap_u64(BigDiv(dividend.val, b)))

\* checked_mul with a product rounded to the nearest unit instead of truncated
checked_mul_rounding(a, b, scale) ==
    LET product == checked_u128(BigMul(a, b))
    IN  IF product.tag = "None" THEN None
        ELSE LET half == BigDiv(SCALE_FACTOR(scale), Big(2))
                 result == BigDiv(BigAdd(product.val, half), SCALE_FACTOR(scale))
             IN  IF BigLt(U64_MAX, result) THEN None ELSE Some(result)

\* DecimalU64::checked_mul
checked_mul(a, b, scale) ==
    LET product == checked_u128(BigMul(a, b))
    IN  IF product.tag = "None" THEN None
        ELSE LET result == BigDiv(product.val, SCALE_FACTOR(scale))
             IN  IF BigLt(U64_MAX, result) THEN None ELSE Some(result)

\* checked_add that wraps instead of reporting
checked_add_wrapping(a, b) == Some(wrap_u64(BigAdd(a, b)))

\* DecimalU64::checked_add
checked_add(a, b) ==
    LET sum == checked_u64(BigAdd(a, b))
    IN  IF sum.tag = "None" THEN None ELSE Some(sum.val)

\* DecimalU64::checked_sub
checked_sub(a, b) ==
    LET diff == checked_sub_u64(a, b)
    IN  IF diff.tag = "None" THEN None ELSE Some(diff.val)

\* The dividend of checked_div: (self.unscaled as u128).checked_mul(SCALE_FACTOR)
checked_div_dividend(a, scale) == checked_u128(BigMul(a, SCALE_FACTOR(scale)))

\* checked_div that narrows the quotient without looking at its size
checked_div_truncating(a, b, scale) ==
    IF b = Zero THEN None
    ELSE LET dividend == checked_div_dividend(a, scale)
         IN  IF dividend.tag = "None" THEN None
             ELSE Some(wrap_u64(BigDiv(dividend.val, b)))

\* checked_div without its test of the divisor: the division itself panics
checked_div_unguarded(a, b, scale) ==
    LET dividend == checked_div_dividend(a, scale)
    IN  IF dividend.tag = "None" THEN None
        ELSE IF b = Zero THEN Panic("attempt to divide by zero")
        ELSE LET quotient == BigDiv(dividend.val, b)
             IN  IF BigLt(U64_MAX, quotient) THEN None ELSE Some(quotient)

\* DecimalU64::checked_div
checked_div(a, b, scale) ==
    IF b = Zero THEN None
    ELSE LET dividend == checked_div_dividend(a, scale)
         IN  IF dividend.tag = "None" THEN None
             ELSE LET quotient == BigDiv(dividend.val, b)
                  IN  IF BigLt(U64_MAX, quotient) THEN None ELSE Some(quotient)

\* The () an assignment operator returns
Unit == [tag |-> "unit", val |-> <<>>]

Spread == 1

\* The u64 values within Spread of c
Near(c) ==
    {BigSub(c, Big(j)) : j \in {k \in 0..Spread : BigLe(Big(k), c)}}
    \cup {BigAdd(c, Big(j)) : j \in {k \in 0..Spread : BigLe(BigAdd(c, Big(k)), U64_MAX)}}

\* 1000000000 (of "1000000000.00000000" in mul::should_overflow)
BILLION == 1000000000

\* The operands: raw values around 0, 1.0 (SCALE_FACTOR), 2^32,
\* 1000000000.0 and u64::MAX
Operands(scale) ==
    Near(Zero) \cup Near(SCALE_FACTOR(scale)) \cup Near(Two32)
    \cup Near(BigMul(Big(BILLION), SCALE_FACTOR(scale))) \cup Near(U64_MAX)

InitArith ==
    /\ S \in Scales
    /\ overflow_checks \in BOOLEAN
    /\ bytes = <<>>
    /\ self \in Operands(S) /\ other \in Operands(S)
    /\ call = "start" /\ ret = None

\* A call on (self, other) returns and leaves self alone
Return(name, result) ==
    /\ call' = name
    /\ ret' = result
    /\ UNCHANGED <<S, overflow_checks, bytes, self, other>>

\* An assignment operator returns: self holds the result unless it panicked
Assign(name, result) ==
    /\ call' = name
    /\ ret' = IF result.tag = "panic" THEN result ELSE Unit
    /\ self' = IF result.tag = "panic" THEN self ELSE result.val
    /\ UNCHANGED <<S, overflow_checks, bytes, other>>

\* self * other
Mul == /\ call = "start"
       /\ Return("mul", mul(self, other, S))

\* self + other
Add == /\ call = "start"
       /\ Return("add", add(self, other))

\* self - other
Sub == /\ call = "start"
       /\ Return("sub", sub(self, other))

\* self / other
Div == /\ call = "start"
       /\ Return("div", div(self, other, S))

\* self += other
AddAssign == /\ call = "start"
             /\ Assign("add_assign", add(self, other))

\* self -= other
SubAssign == /\ call = "start"
             /\ Assign("sub_assign", sub(self, other))

CheckedMul == /\ call = "start"
              /\ Return("checked_mul", checked_mul(self, other, S))

CheckedAdd == /\ call = "start"
              /\ Return("checked_add", checked_add(self, other))

CheckedSub == /\ call = "start"
              /\ Return("checked_sub", checked_sub(self, other))

CheckedDiv == /\ call = "start"
              /\ Return("checked_div", checked_div(self, other, S))

NextArith ==
    \/ Mul \/ Add \/ Sub \/ Div \/ AddAssign \/ SubAssign
    \/ CheckedMul \/ CheckedAdd \/ CheckedSub \/ CheckedDiv

SpecArith == InitArith /\ [][NextArith]_vars

---------------------------------------------------------------------------
(* round.rs: the rounding policies                                         *)

\* `a / b` that yields 0 for a zero divisor instead of panicking
unchecked_div_u64_lenient(a, b) ==
    IF b = Zero THEN Ok(Zero) ELSE Ok(BigDiv(a, b))

\* `a / b` on u64
unchecked_div_u64(a, b) ==
    IF b = Zero THEN Panic("attempt to divide by zero") ELSE Ok(BigDiv(a, b))

\* `(sum / tick_size.unscaled) * tick_size.unscaled` for a sum that may have panicked
snap(sum, tick) ==
    IF sum.tag = "panic" THEN sum
    ELSE LET quot == unchecked_div_u64(sum.val, tick)
         IN  IF quot.tag = "panic" THEN quot
             ELSE unchecked_u64(BigMul(quot.val, tick), "attempt to multiply with overflow")

\* tick_size.unscaled / 2 + (tick_size.unscaled % 2)
half_tick(tick) == BigAdd(BigDiv(tick, Big(2)), BigMod(tick, Big(2)))

\* HalfUp::round
HalfUp_round(value, tick) ==
    snap(unchecked_u64(BigAdd(value, half_tick(tick)), "attempt to add with overflow"), tick)

\* Floor::round that keeps the value as it is
Floor_round_identity(value, tick) ==
    IF tick = Zero THEN Panic("attempt to divide by zero") ELSE Ok(value)

\* Floor::round
Floor_round(value, tick) == snap(Ok(value), tick)

\* Ceil::round: value.unscaled + tick_size.unscaled - 1, left to right
Ceil_round(value, tick) ==
    LET sum == unchecked_u64(BigAdd(value, tick), "attempt to add with overflow")
    IN  IF sum.tag = "panic" THEN sum
        ELSE snap(unchecked_sub_u64(sum.val, One), tick)

MaxValue == 12
MaxTick == 5

\* The values rounded: 0..MaxValue and the top of the u64 range
RoundValues ==
    {Big(k) : k \in 0..MaxValue} \cup {BigSub(U64_MAX, Big(k)) : k \in 0..MaxTick}

\* The tick sizes: 0..MaxTick
Ticks == {Big(k) : k \in 0..MaxTick}

InitRound ==
    /\ S \in Scales
    /\ overflow_checks \in BOOLEAN
    /\ bytes = <<>>
    /\ self \in RoundValues /\ other \in Ticks
    /\ call = "start" /\ ret = None

\* self.round::<HalfUp>(other)
RoundHalfUp == /\ call = "start"
               /\ Return("round_half_up", HalfUp_round(self, other))

\* self.round::<Floor>(other)
RoundFloor == /\ call = "start"
              /\ Return("round_floor", Floor_round(self, other))

\* self.round::<Ceil>(other)
RoundCeil == /\ call = "start"
             /\ Return("round_ceil", Ceil_round(self, other))

NextRound == RoundHalfUp \/ RoundFloor \/ RoundCeil

SpecRound == InitRound /\ [][NextRound]_vars

---------------------------------------------------------------------------
(* write_to into a caller's buffer, and to_string followed by from_str     *)

\* 10^0 .. 10^19, where the number of digits of a u64 changes
PowersOfTen ==
    {BigMulSmall(BigMul(Big(pow10(i)), Big(pow10(j))), pow10(k)) :
        i \in 0..(MAX_SCALE + 1), j \in 0..(MAX_SCALE + 1), k \in 0..1}

\* The values formatted: around 0, every power of ten and u64::MAX, and
\* 12345000001 ("123.45000001" in should_write_to_buffer)
FormatValues ==
    Near(Zero) \cup UNION {Near(q) : q \in PowersOfTen} \cup Near(U64_MAX)
    \cup {BigAdd(BigMul(Big(12345), Big(pow10(6))), One)}

BufferSlack == 1

\* 20 digits + 1 separator + 8 fractional digits
SufficientBufferLen == Len(U64_MAX_DIGITS) + 1 + MAX_SCALE

\* The lengths of the caller's buffer: the 20 bytes that hold the digits of
\* u64::MAX alone, and SufficientBufferLen or a little more
BufferLens ==
    {Len(U64_MAX_DIGITS)} \cup SufficientBufferLen..(SufficientBufferLen + BufferSlack)

\* bytes is the caller's buffer, zeroed
InitFormat ==
    /\ S \in Scales
    /\ overflow_checks \in BOOLEAN
    /\ self \in FormatValues /\ other = Zero
    /\ bytes \in {[i \in 1..n |-> 0] : n \in BufferLens}
    /\ call = "start" /\ ret = None

\* The caller's view of write_to(&mut buffer): the slice afterwards, and the
\* length returned or the panic of an index outside the slice
write_to_slice(unscaled, scale, slice) ==
    LET w == write_to(unscaled, scale, [i \in 0..(Len(slice) - 1) |-> slice[i + 1]])
    IN  [slice |-> [i \in 1..Len(slice) |-> w.buffer[i - 1]],
         ret |-> IF w.panicked THEN Panic("index out of bounds") ELSE Ok(Big(w.pos))]

\* self.write_to(&mut bytes)
WriteTo ==
    /\ call = "start"
    /\ call' = "write_to"
    /\ \E w \in {write_to_slice(self, S, bytes)} :
           /\ bytes' = w.slice
           /\ ret' = w.ret
    /\ UNCHANGED <<S, overflow_checks, self, other>>

\* bytes = self.to_string()
ToStringOf ==
    /\ call = "start"
    /\ call' = "to_string"
    /\ ret' = fmt(self, S)
    /\ bytes' = IF ret'.tag = "String" THEN ret'.val ELSE bytes
    /\ UNCHANGED <<S, overflow_checks, self, other>>

\* DecimalU64::<S>::from_str(&bytes) of the text to_string gave
FromStr ==
    /\ call = "to_string" /\ ret.tag = "String"
    /\ call' = "from_str"
    /\ ret' = try_from(bytes, S)
    /\ UNCHANGED <<S, overflow_checks, bytes, self, other>>

NextFormat == WriteTo \/ ToStringOf \/ FromStr

SpecFormat == InitFormat /\ [][NextFormat]_vars

---------------------------------------------------------------------------
(* What the claims speak of, read off the input text alone                 *)

IsDigitByte(b) == b \in ASCII_0..ASCII_9

OnlyDigitsAndDots(bs) == \A i \in 1..Len(bs) : IsDigitByte(bs[i]) \/ bs[i] = ASCII_DOT

MinOf(T) == CHOOSE m \in T : \A n \in T : m <= n

\* The place of the first '.', 0 when there is none
FirstDot(bs) ==
    LET dots == {i \in 1..Len(bs) : bs[i] = ASCII_DOT}
    IN  IF dots = {} THEN 0 ELSE MinOf(dots)

\* The number of digits among bs[lo..hi]
DigitsIn(bs, lo, hi) == Cardinality({i \in lo..hi : IsDigitByte(bs[i])})

\* K: the number of digits after the first '.' within the first n bytes
FracDigitsBefore(bs, n) ==
    LET d == FirstDot(SubSeq(bs, 1, n)) IN IF d = 0 THEN 0 ELSE DigitsIn(bs, d + 1, n)

FracDigits(bs) == FracDigitsBefore(bs, Len(bs))

\* 10^n as a wide integer
RECURSIVE BigPow10(_)
BigPow10(n) == IF n = 0 THEN One ELSE BigMulSmall(BigPow10(n - 1), 10)

\* v, or 2^64 when v is beyond the u64 range
Capped(v) == IF BigLe(v, U64_MAX) THEN v ELSE Two64

\* The number the digits of bs[lo..hi] spell (every other byte skipped),
\* or 2^64 when that number is beyond the u64 range: a number with a
\* non-zero digit followed by more digits than u64::MAX has is beyond it
RECURSIVE DigitsValue(_, _, _)
DigitsValue(bs, lo, hi) ==
    IF lo > hi THEN Zero
    ELSE IF lo = hi THEN (IF IsDigitByte(bs[lo]) THEN Big(bs[lo] - ASCII_0) ELSE Zero)
    ELSE LET mid == (lo + hi) \div 2
             l == DigitsValue(bs, lo, mid)
             r == DigitsValue(bs, mid + 1, hi)
             k == DigitsIn(bs, mid + 1, hi)
         IN  IF l = Zero THEN r
             ELSE IF k > Len(U64_MAX_DIGITS) THEN Two64
             ELSE Capped(BigAdd(BigMul(l, BigPow10(k)), r))

\* The unscaled value the text denotes at the scale, digits * 10^(scale - K),
\* or a number beyond the u64 range when that is
ScaledValue(bs, scale) ==
    BigMul(DigitsValue(bs, 1, Len(bs)), BigPow10(scale - FracDigits(bs)))

\* A valid decimal string: digits, at most one '.', K <= scale, value in range
ValidDecimal(bs, scale) ==
    /\ OnlyDigitsAndDots(bs)
    /\ Cardinality({i \in 1..Len(bs) : bs[i] = ASCII_DOT}) <= 1
    /\ FracDigits(bs) <= scale
    /\ BigLe(ScaledValue(bs, scale), U64_MAX)

\* The first byte that is neither a digit nor '.', 0 when there is none
FirstInvalid(bs) ==
    LET bad == {i \in 1..Len(bs) : ~IsDigitByte(bs[i]) /\ bs[i] # ASCII_DOT}
    IN  IF bad = {} THEN 0 ELSE MinOf(bad)

\* The text format(parse(s)) is to give: the integer digits of s without
\* leading zeros (at least one digit), then '.' and the fractional digits
\* padded with zeros to the scale
ExpectedText(bs, scale) ==
    LET d == FirstDot(bs)
        int == IF d = 0 THEN bs ELSE SubSeq(bs, 1, d - 1)
        frac == IF d = 0 THEN <<>> ELSE SubSeq(bs, d + 1, Len(bs))
        nz == {i \in 1..Len(int) : int[i] # ASCII_0}
        stripped == IF nz = {} THEN <<ASCII_0>> ELSE SubSeq(int, MinOf(nz), Len(int))
    IN  IF scale = 0 THEN stripped
        ELSE stripped \o <<ASCII_DOT>> \o frac \o [i \in 1..(scale - Len(frac)) |-> ASCII_0]

---------------------------------------------------------------------------
(* The claims about parsing and formatting                                 *)

\* C1: for an input of digits and '.' with at most SCALE fractional digits
\* whose value leaves the u64 range at some step, try_from returns
\* Error::Overflow carrying the input text: it neither aborts nor returns a
\* wrapped value.  At scale 8 "184467440737.09551615" gives u64::MAX and
\* "184467440737.09551616" gives Overflow.
C1_OverflowIsReported ==
    /\ ( /\ call = "try_from"
         /\ OnlyDigitsAndDots(bytes)
         /\ FracDigits(bytes) <= S
         /\ BigLt(U64_MAX, ScaledValue(bytes, S)) )
       => (ret.tag = "Overflow" /\ ret.val = bytes)
    /\ (call = "try_from" /\ S = 8 /\ bytes = WithDot(Digits(U64_MAX_DIGITS), 8))
       => (ret.tag = "Ok" /\ ret.val = U64_MAX)
    /\ ( /\ call = "try_from" /\ S = 8
         /\ bytes = WithDot(Digits([U64_MAX_DIGITS EXCEPT ![20] = 6]), 8) )
       => ret.tag = "Overflow"

\* C2: for an input of digits and '.' with more than SCALE digits after the
\* first '.', try_from returns Error::Overflow, however many they are and
\* also when they are all zeros.  Stated for the inputs whose digits stay
\* within the u64 range, where only the number of fractional digits decides.
C2_TooManyFractionalDigits ==
    ( /\ call = "try_from"
      /\ OnlyDigitsAndDots(bytes)
      /\ FracDigits(bytes) > S
      /\ BigLe(DigitsValue(bytes, 1, Len(bytes)), U64_MAX) )
    => ret.tag = "Overflow"

C4_FormatOfParse ==
    /\ (call = "try_from" /\ ValidDecimal(bytes, S)) => ret.tag = "Ok"
    /\ (call = "to_string" /\ ValidDecimal(bytes, S))
       => (ret.tag = "String" /\ ret.val = ExpectedText(bytes, S))

\* "123.45" at scale 8 has been parsed and formatted to "123.45000000"
C4_Witness ==
    /\ call = "to_string" /\ S = 8
    /\ bytes = WithDot(Digits(<<1, 2, 3, 4, 5>>), 2)
    /\ ret.tag = "String"
    /\ ret.val = WithDot(Digits(<<1, 2, 3, 4, 5, 0, 0, 0, 0, 0, 0>>), 8)

---------------------------------------------------------------------------
(* The claims about the arithmetic                                         *)

\* C5: checked_mul(a, b) is Some(r) with r = floor(a * b / SCALE_FACTOR)
\* exactly when that quotient is at most u64::MAX, and None exactly when it is
\* beyond; the result is truncated, never rounded.  (r is the floor when
\* r * F <= a * b < (r + 1) * F; the quotient is beyond when a * b >= 2^64 * F.)
C5_CheckedMulTruncates ==
    call = "checked_mul" =>
        LET p == BigMul(self, other)
            F == BigPow10(S)
        IN  /\ ret.tag \in {"Some", "None"}
            /\ ret.tag = "Some" =>
                   /\ BigLe(ret.val, U64_MAX)
                   /\ BigLe(BigMul(ret.val, F), p)
                   /\ BigLt(p, BigMul(BigAdd(ret.val, One), F))
            /\ ret.tag = "None" => BigLe(BigMul(Two64, F), p)

\* checked_mul has returned a product it had to truncate by more than half a unit
C5_Witness ==
    /\ call = "checked_mul" /\ ret.tag = "Some" /\ S > 0
    /\ BigLt(BigMul(Big(5), BigPow10(S - 1)),
             BigSub(BigMul(self, other), BigMul(ret.val, BigPow10(S))))

\* The quotient part of C6: for b # 0, checked_div(a, b) is Some(q) with
\* q = floor(a * SCALE_FACTOR / b) exactly when that quotient is at most
\* u64::MAX, and None otherwise
DivQuotientExact ==
    (call = "checked_div" /\ other # Zero) =>
        LET n == BigMul(self, BigPow10(S))
        IN  /\ ret.tag \in {"Some", "None"}
            /\ ret.tag = "Some" =>
                   /\ BigLe(ret.val, U64_MAX)
                   /\ BigLe(BigMul(ret.val, other), n)
                   /\ BigLt(n, BigMul(BigAdd(ret.val, One), other))
            /\ ret.tag = "None" => BigLe(BigMul(Two64, other), n)

\* C6 as claimed: the quotient as above, and the widened intermediate
\* a.unscaled * SCALE_FACTOR is a checked step that can fail for large a or
\* high scale.  A larger a or a higher scale only enlarges the intermediate,
\* so if it can fail at all it fails for a = u64::MAX at scale 8.
C6_DividendCanFail ==
    /\ DivQuotientExact
    /\ (call = "checked_div" /\ other # Zero /\ self = U64_MAX /\ S = MAX_SCALE)
       => checked_div_dividend(self, S).tag = "None"

\* C6 as amended: the quotient as above; the widened intermediate is a checked
\* step that never fails for a u64 a at the scales 0..8, so None comes only
\* from a zero divisor or a quotient beyond u64::MAX.
C6_DividendNeverFails ==
    /\ DivQuotientExact
    /\ call = "checked_div" => checked_div_dividend(self, S).tag = "Some"

\* u64::MAX at scale 8 divided by the raw 1: the intermediate was computed and
\* the quotient was too large
C6_Witness ==
    /\ call = "checked_div" /\ self = U64_MAX /\ S = MAX_SCALE /\ other = One
    /\ checked_div_dividend(self, S).tag = "Some"
    /\ ret.tag = "None"

\* C7: with a divisor whose unscaled value is 0, whatever the dividend,
\* checked_div returns None without aborting and `/` aborts with
\* 'Division by zero'
C7_DivisionByZero ==
    /\ (call = "checked_div" /\ other = Zero) => ret.tag = "None"
    /\ (call = "div" /\ other = Zero) => (ret.tag = "panic" /\ ret.val = "Division by zero")

\* 0 / 0 has aborted
C7_Witness ==
    call = "div" /\ self = Zero /\ other = Zero /\ ret.tag = "panic"

\* C8: checked_add is None exactly when a + b > u64::MAX and otherwise Some of
\* the sum; checked_sub is None exactly when a < b and otherwise Some of the
\* difference; neither wraps or aborts.  (The sum is checked by subtracting,
\* the difference by adding.)
C8_CheckedAddSubExact ==
    /\ call = "checked_add" =>
           /\ ret.tag \in {"Some", "None"}
           /\ ret.tag = "Some" =>
                  /\ BigLe(ret.val, U64_MAX)
                  /\ BigLe(other, ret.val)
                  /\ BigSub(ret.val, other) = self
           /\ ret.tag = "None" => BigLt(BigSub(U64_MAX, other), self)
    /\ call = "checked_sub" =>
           /\ ret.tag \in {"Some", "None"}
           /\ ret.tag = "Some" => BigAdd(ret.val, other) = self
           /\ ret.tag = "None" => BigLt(self, other)

\* checked_add has refused a sum one beyond u64::MAX
C8_Witness ==
    /\ call = "checked_add" /\ ret.tag = "None"
    /\ self # Zero /\ other # Zero
    /\ BigAdd(self, other) = Two64

---------------------------------------------------------------------------
(* The claims about the '.' bytes of an input                              *)

DotCount(bs) == Cardinality({i \in 1..Len(bs) : bs[i] = ASCII_DOT})

\* bs[lo..hi] without its '.' bytes other than the one at d
RECURSIVE WithoutDotsBut(_, _, _, _)
WithoutDotsBut(bs, lo, hi, d) ==
    IF lo > hi THEN <<>>
    ELSE IF lo = hi THEN (IF bs[lo] = ASCII_DOT /\ lo # d THEN <<>> ELSE <<bs[lo]>>)
    ELSE LET mid == (lo + hi) \div 2
         IN  WithoutDotsBut(bs, lo, mid, d) \o WithoutDotsBut(bs, mid + 1, hi, d)

\* The input from which bs arises by inserting '.' bytes after its first '.'
FirstDotOnly(bs) == WithoutDotsBut(bs, 1, Len(bs), FirstDot(bs))

\* The same unscaled value on success, the same kind of failure otherwise
SameOutcome(r1, r2) ==
    /\ r1.tag = r2.tag
    /\ r1.tag \in {"Ok", "InvalidCharacterInput", "panic"} => r1.val = r2.val

\* C16: a second or later '.' is not rejected and changes nothing: an input
\* with '.' bytes inserted anywhere after its first '.' has the outcome of
\* the input without them; "1.2.3" parses to the value of "1.23"
C16_LaterDotsChangeNothing ==
    (call = "try_from" /\ DotCount(bytes) >= 2)
    => SameOutcome(ret, try_from(FirstDotOnly(bytes), S))

\* "1.2.3" has been parsed at scale 2 to 123, the value of "1.23"
C16_Witness ==
    /\ call = "try_from" /\ S = 2
    /\ bytes = <<ASCII_0 + 1, ASCII_DOT, ASCII_0 + 2, ASCII_DOT, ASCII_0 + 3>>
    /\ ret = Ok(Big(123))

\* C18: at every scale the empty input and an input of '.' bytes alone are
\* accepted and give the zero value
C18_NoDigitsIsZero ==
    (call = "try_from" /\ \A i \in 1..Len(bytes) : bytes[i] = ASCII_DOT)
    => ret = Ok(Zero)

\* ".." has been parsed at scale 8 to zero
C18_Witness ==
    /\ call = "try_from" /\ S = MAX_SCALE
    /\ bytes = <<ASCII_DOT, ASCII_DOT>>
    /\ ret = Ok(Zero)

---------------------------------------------------------------------------
(* The claims about write_to and the round trip                            *)

\* C14: into a buffer of 29 or more bytes write_to, for every u64 value and
\* every scale, writes without indexing outside the buffer and returns the
\* number n <= 29 of bytes written; these are the integer part
\* unscaled / SCALE_FACTOR in at least one digit and without leading zeros,
\* then, only when SCALE > 0, a '.' and exactly SCALE digits that spell
\* unscaled % SCALE_FACTOR, so n = digits(integer part) + (SCALE + 1 or 0)
C14_WriteToIsTotalAndBounded ==
    (call = "write_to" /\ Len(bytes) >= SufficientBufferLen)
    => /\ ret.tag = "Ok"
       /\ BigLe(ret.val, Big(SufficientBufferLen))
       /\ LET n == BigToInt(ret.val)
              intlen == IF S > 0 THEN n - S - 1 ELSE n
              int == DigitsValue(bytes, 1, intlen)
              frac == DigitsValue(bytes, intlen + 2, n)
          IN  /\ intlen >= 1
              /\ \A i \in 1..intlen : IsDigitByte(bytes[i])
              /\ intlen > 1 => bytes[1] # ASCII_0
              /\ S > 0 => bytes[intlen + 1] = ASCII_DOT
              /\ \A i \in (intlen + 2)..n : IsDigitByte(bytes[i])
              /\ BigAdd(BigMul(int, BigPow10(S)), frac) = self
              /\ \A i \in (n + 1)..Len(bytes) : bytes[i] = 0

\* u64::MAX at scale 8 has been written into a buffer of exactly 29 bytes:
\* 12 digits, the '.', 8 digits
C14_Witness ==
    /\ call = "write_to" /\ self = U64_MAX /\ S = MAX_SCALE
    /\ Len(bytes) = SufficientBufferLen
    /\ ret = Ok(Big(Len(U64_MAX_DIGITS) + 1))
    /\ bytes[Len(U64_MAX_DIGITS) + 1 - MAX_SCALE] = ASCII_DOT

\* C17: for every scale and every u64 v, 0 and u64::MAX included,
\* from_str(to_string(from_raw(v))) succeeds with the unscaled value v; no
\* step of the digit accumulation overflows, in any build
C17_ParseOfFormat ==
    call = "from_str" => ret = Ok(self)

\* The text of u64::MAX at scale 8, "184467440737.09551615", has been parsed
\* back in a build with overflow checks
C17_Witness ==
    /\ call = "from_str" /\ self = U64_MAX /\ S = MAX_SCALE /\ overflow_checks
    /\ bytes = WithDot(Digits(U64_MAX_DIGITS), MAX_SCALE)
    /\ ret.tag = "Ok"

---------------------------------------------------------------------------
(* The claims that relate the operators to the checked methods             *)

\* C13: whenever checked_add, checked_sub, checked_mul or checked_div of
\* (a, b) returns Some(r), the operator a + b, a - b, a * b or a / b returns
\* the same r
C13_OperatorsAgreeWithChecked ==
    /\ (call = "add" /\ checked_add(self, other).tag = "Some")
       => ret = Ok(checked_add(self, other).val)
    /\ (call = "sub" /\ checked_sub(self, other).tag = "Some")
       => ret = Ok(checked_sub(self, other).val)
    /\ (call = "mul" /\ checked_mul(self, other, S).tag = "Some")
       => ret = Ok(checked_mul(self, other, S).val)
    /\ (call = "div" /\ checked_div(self, other, S).tag = "Some")
       => ret = Ok(checked_div(self, other, S).val)

\* `/` has returned a non-zero quotient at a scale above 0 where checked_div
\* returns Some
C13_Witness ==
    /\ call = "div" /\ S > 0 /\ ret.tag = "Ok" /\ ret.val # Zero
    /\ checked_div(self, other, S).tag = "Some"
    /\ BigLt(One, other)

\* (a - b) mod 2^64
WrappedDifference(a, b) ==
    IF BigLe(b, a) THEN BigSub(a, b) ELSE BigSub(BigAdd(a, Two64), b)

\* (a + b) mod 2^64
WrappedSum(a, b) == BigMod(BigAdd(a, b), Two64)

\* C15: the operators wrap and never abort: every step of `a + b` returns
\* (a + b) mod 2^64 and every step of `a += b` leaves it in a; `a - b` and
\* `a -= b` likewise with (a - b) mod 2^64; `a * b` returns
\* floor(a * b / SCALE_FACTOR) mod 2^64
C15_OperatorsWrap ==
    [][ /\ call' = "add" => ret' = Ok(WrappedSum(self, other))
        /\ call' = "add_assign" =>
               (ret'.tag = "unit" /\ self' = WrappedSum(self, other))
        /\ call' = "sub" => ret' = Ok(WrappedDifference(self, other))
        /\ call' = "sub_assign" =>
               (ret'.tag = "unit" /\ self' = WrappedDifference(self, other))
        /\ call' = "mul" =>
               ret' = Ok(BigMod(BigDiv(BigMul(self, other), BigPow10(S)), Two64))
      ]_vars

---------------------------------------------------------------------------
(* The claims about rounding                                               *)

Distance(a, b) == IF BigLe(a, b) THEN BigSub(b, a) ELSE BigSub(a, b)

\* C9: for t > 0, HalfUp::round(v, t) is the multiple of t nearest to v, the
\* upper one when v is exactly half-way, so never farther than t/2 from v.
\* Stated for the values with v + t within the u64 range, where no step of
\* the computation can leave the range.
C9_HalfUpIsNearest ==
    ( /\ call = "round_half_up"
      /\ other # Zero
      /\ BigLe(BigAdd(self, other), U64_MAX) )
    => /\ ret.tag = "Ok"
       /\ BigMod(ret.val, other) = Zero
       /\ BigLe(BigMul(Big(2), Distance(ret.val, self)), other)
       /\ BigMul(Big(2), BigMod(self, other)) = other => BigLt(self, ret.val)

\* C10: for t > 0, Ceil::round(v, t) is the smallest multiple of t that is
\* >= v: v itself when v is a multiple of t, else the next one above, never
\* below v, also for v near u64::MAX.  Stated for the values that have such a
\* multiple within the u64 range.
C10_CeilIsSmallestMultipleAbove ==
    ( /\ call = "round_ceil"
      /\ other # Zero
      /\ BigLe(self, BigMul(BigDiv(U64_MAX, other), other)) )
    => /\ ret.tag = "Ok"
       /\ BigMod(ret.val, other) = Zero
       /\ BigLe(self, ret.val)
       /\ BigLt(BigSub(ret.val, self), other)

\* C11: for t > 0, Floor::round(v, t) is the largest multiple of t that is
\* <= v: a multiple of t, at most v, and less than t below v
C11_FloorIsLargestMultipleBelow ==
    (call = "round_floor" /\ other # Zero)
    => /\ ret.tag = "Ok"
       /\ BigMod(ret.val, other) = Zero
       /\ BigLe(ret.val, self)
       /\ BigLt(BigSub(self, ret.val), other)

\* A value at the top of the u64 range that is no multiple of its tick has
\* been rounded down
C11_Witness ==
    /\ call = "round_floor" /\ ret.tag = "Ok"
    /\ BigLt(BigSub(U64_MAX, Big(MaxTick)), self)
    /\ BigLt(One, other)
    /\ BigLt(ret.val, self)

\* C12 as claimed: with a tick whose unscaled value is 0 each of the three
\* policies, for every value (0 included), ends in the division-by-zero
\* abort, returns no value and reports no checked error
C12_ZeroTickDividesByZero ==
    (call \in {"round_half_up", "round_floor", "round_ceil"} /\ other = Zero)
    => (ret.tag = "panic" /\ ret.val = "attempt to divide by zero")

\* C12 as amended: with a zero tick each policy aborts and returns nothing;
\* the abort is the division by zero, except that Ceil of the value 0 in a
\* build with overflow checks aborts in `0 + 0 - 1` before it divides
C12_ZeroTickAborts ==
    (call \in {"round_half_up", "round_floor", "round_ceil"} /\ other = Zero)
    => /\ ret.tag = "panic"
       /\ ret.val = IF call = "round_ceil" /\ self = Zero /\ overflow_checks
                    THEN "attempt to subtract with overflow"
                    ELSE "attempt to divide by zero"

\* Ceil of 0 with the tick 0 has aborted in a build without overflow checks:
\* the subtraction wrapped and the division by zero was reached
C12_Witness ==
    /\ call = "round_ceil" /\ self = Zero /\ other = Zero /\ ~overflow_checks
    /\ ret.tag = "panic" /\ ret.val = "attempt to divide by zero"

=============================================================================
